---- MODULE Spec2Model ----
(***************************************************************************)
(* Model of the streaming branch of InstaparserClient.summary()            *)
(* (src/src/article.ts, lines 372-444): the 'data', 'end' and 'error'      *)
(* handlers registered on the response stream, the per-call state they     *)
(* close over (keySentences, overview, buffer) and the promise they        *)
(* settle.                                                                 *)
(*                                                                         *)
(* Text is a sequence of one-character strings.  A byte is written as the  *)
(* ASCII character it encodes; "C3" and "A9" are the two bytes of the      *)
(* UTF-8 encoding of U+00E9, which decodes to the character "E9";          *)
(* "FFFD" is the replacement character U+FFFD.                             *)
(***************************************************************************)
EXTENDS Integers, Sequences, FiniteSets, TLC

\* ------------------------------------------------------------------ bounds
MaxLines == 2       \* lines per response stream
MaxChunk == 3       \* bytes per 'data' event
MaxSignals == 2     \* 'end'/'error' events of a transport that breaks its contract
MaxLateLines == 1   \* lines per response stream of such a transport
MaxPairLines == 1   \* lines per response stream of two concurrent invocations

\* ------------------------------------------------------- string primitives
\* JavaScript white space that can occur in the modelled alphabet.
WhiteSpace == {" ", "\t", "\r", "\n"}

RECURSIVE TrimStart(_)
TrimStart(s) ==
  IF s # <<>> /\ Head(s) \in WhiteSpace THEN TrimStart(Tail(s)) ELSE s

RECURSIVE TrimEnd(_)
TrimEnd(s) ==
  IF s # <<>> /\ s[Len(s)] \in WhiteSpace
  THEN TrimEnd(SubSeq(s, 1, Len(s) - 1)) ELSE s

\* String.prototype.trim
Trim(s) == TrimEnd(TrimStart(s))

\* String.prototype.startsWith
StartsWith(s, prefix) ==
  /\ Len(s) >= Len(prefix)
  /\ SubSeq(s, 1, Len(prefix)) = prefix

\* index of the first occurrence of sep in s, 0 when there is none
IndexOf(s, sep) ==
  LET hits == {i \in 1..(Len(s) - Len(sep) + 1) :
                 SubSeq(s, i, i + Len(sep) - 1) = sep}
  IN IF hits = {} THEN 0
     ELSE CHOOSE i \in hits : \A j \in hits : i <= j

\* String.prototype.split(sep) with a non-empty separator
RECURSIVE Split(_, _)
Split(s, sep) ==
  LET i == IndexOf(s, sep)
  IN IF i = 0 THEN <<s>>
     ELSE <<SubSeq(s, 1, i - 1)>> \o Split(SubSeq(s, i + Len(sep), Len(s)), sep)

\* String.prototype.split(sep, limit): the pieces are computed as for
\* split(sep) and the array is truncated to the first limit entries.
SplitLimit(s, sep, limit) ==
  LET parts == Split(s, sep)
  IN IF Len(parts) > limit THEN SubSeq(parts, 1, limit) ELSE parts

\* ------------------------------------------------------------- UTF-8 text
\* Buffer.prototype.toString('utf-8') of one chunk: a lead byte without its
\* continuation byte and a continuation byte without its lead byte each
\* decode to U+FFFD.
RECURSIVE ToStringUtf8(_)
ToStringUtf8(bytes) ==
  IF bytes = <<>> THEN <<>>
  ELSE IF Head(bytes) = "C3"
       THEN IF Len(bytes) >= 2 /\ bytes[2] = "A9"
            THEN <<"E9">> \o ToStringUtf8(SubSeq(bytes, 3, Len(bytes)))
            ELSE <<"FFFD">> \o ToStringUtf8(Tail(bytes))
       ELSE IF Head(bytes) = "A9"
            THEN <<"FFFD">> \o ToStringUtf8(Tail(bytes))
            ELSE <<Head(bytes)>> \o ToStringUtf8(Tail(bytes))

\* ------------------------------------------------------------- JSON.parse
\* JSON.parse restricted to the values the modelled alphabet can spell:
\* a string literal without escapes, or an array of such literals.  The
\* result is [ok, value]; ok = FALSE stands for the SyntaxError thrown.
JsonWs == {" ", "\t", "\r", "\n"}

RECURSIVE SkipWs(_, _)
SkipWs(s, i) ==
  IF i <= Len(s) /\ s[i] \in JsonWs THEN SkipWs(s, i + 1) ELSE i

\* string literal starting at s[i] = '"': [ok, value, next]
ParseString(s, i) ==
  IF i > Len(s) \/ s[i] # "\""
  THEN [ok |-> FALSE, value |-> <<>>, next |-> i]
  ELSE LET closes == {j \in (i + 1)..Len(s) : s[j] = "\""}
       IN IF closes = {}
          THEN [ok |-> FALSE, value |-> <<>>, next |-> i]
          ELSE LET j == CHOOSE c \in closes : \A d \in closes : c <= d
               IN [ok |-> TRUE, value |-> SubSeq(s, i + 1, j - 1), next |-> j + 1]

\* elements of an array, s[i] being the first character of an element
RECURSIVE ParseElems(_, _, _)
ParseElems(s, i, acc) ==
  LET e == ParseString(s, i)
  IN IF ~e.ok THEN [ok |-> FALSE, value |-> <<>>, next |-> i]
     ELSE LET k == SkipWs(s, e.next)
          IN IF k > Len(s) THEN [ok |-> FALSE, value |-> <<>>, next |-> k]
             ELSE IF s[k] = "]"
                  THEN [ok |-> TRUE, value |-> Append(acc, e.value), next |-> k + 1]
                  ELSE IF s[k] = ","
                       THEN ParseElems(s, SkipWs(s, k + 1), Append(acc, e.value))
                       ELSE [ok |-> FALSE, value |-> <<>>, next |-> k]

ParseValue(s, i) ==
  IF i > Len(s) THEN [ok |-> FALSE, value |-> <<>>, next |-> i]
  ELSE IF s[i] = "["
       THEN LET k == SkipWs(s, i + 1)
            IN IF k <= Len(s) /\ s[k] = "]"
               THEN [ok |-> TRUE, value |-> <<>>, next |-> k + 1]
               ELSE ParseElems(s, k, <<>>)
       ELSE ParseString(s, i)

JSONParse(s) ==
  LET v == ParseValue(s, SkipWs(s, 1))
  IN IF v.ok /\ SkipWs(s, v.next) = Len(s) + 1
     THEN [ok |-> TRUE, value |-> v.value]
     ELSE [ok |-> FALSE, value |-> <<>>]

\* ------------------------------------------------------ wire line grammar
KeyTag == <<"k","e","y","_","s","e","n","t","e","n","c","e","s",":">>
DeltaTag == <<"d","e","l","t","a",":">>
Colon == <<":">>
ColonSpace == <<":", " ">>
Newline == <<"\n">>

\* ---------------------------------------------------------------- promise
\* exceptions.ts: InstaparserAPIError(message, statusCode?, response?).  An
\* absent optional argument is the empty sequence, a present one a
\* one-element sequence.
InstaparserAPIError(message, statusCode, response) ==
  [name |-> "InstaparserAPIError", message |-> message,
   statusCode |-> statusCode, response |-> response]

NoError == [name |-> "", message |-> "", statusCode |-> <<>>, response |-> <<>>]

\* summary.ts: new Summary(keySentences, overview)
Summary(ks, ov) == [keySentences |-> ks, overview |-> ov]

NoSummary == Summary(<<>>, <<>>)

PendingPromise == [state |-> "pending", summary |-> NoSummary, error |-> NoError]

\* Resolve that settles again a promise that is already settled
ResolveOverwrite(p, value) ==
  [state |-> "resolved", summary |-> value, error |-> NoError]

\* resolve / reject of the Promise executor: only the first call settles.
Resolve(p, value) ==
  IF p.state = "pending"
  THEN [state |-> "resolved", summary |-> value, error |-> NoError]
  ELSE p

Reject(p, err) ==
  IF p.state = "pending"
  THEN [state |-> "rejected", summary |-> NoSummary, error |-> err]
  ELSE p

\* ------------------------------------------------------ per-line handling
\* line.split(':', 1)[1]?.trim(): [defined, str]
KeyJsonStr(line) ==
  LET parts == SplitLimit(line, Colon, 1)
  IN IF Len(parts) >= 2
     THEN [defined |-> TRUE, str |-> Trim(parts[2])]
     ELSE [defined |-> FALSE, str |-> <<>>]

\* line.split(': ', 2)[1]: [defined, str]
DeltaContent(line) ==
  LET parts == SplitLimit(line, ColonSpace, 2)
  IN IF Len(parts) >= 2
     THEN [defined |-> TRUE, str |-> parts[2]]
     ELSE [defined |-> FALSE, str |-> <<>>]

\* truthiness of an optional string: defined and not empty
Truthy(o) == o.defined /\ o.str # <<>>

KeySentencesError == InstaparserAPIError("Unable to generate key sentences", <<412>>, <<>>)

\* streamCallback(line): the call is recorded with its argument, and seen
\* records the summary state the handler holds at the moment of the call.
StreamCallback(st, line) ==
  [st EXCEPT !.calls = Append(@, line),
             !.seen = Append(@, Summary(st.keySentences, st.overview))]

\* DataLine without the `if (line.trim())` guard: blank lines reach the
\* callback too.
DataLineNoTrimCheck(st, line) ==
  LET s1 == StreamCallback(st, line)
  IN IF StartsWith(line, DeltaTag) /\ Truthy(DeltaContent(line))
     THEN [st |-> [s1 EXCEPT !.overview = @ \o DeltaContent(line).str],
           returned |-> FALSE]
     ELSE [st |-> s1, returned |-> FALSE]

\* DataLine that takes the delta payload after ':' instead of ': '
DataLineColonOnly(st, line) ==
  IF Trim(line) # <<>>
  THEN LET s1 == StreamCallback(st, line)
           parts == SplitLimit(line, Colon, 2)
       IN IF StartsWith(line, DeltaTag) /\ Len(parts) >= 2 /\ parts[2] # <<>>
          THEN [st |-> [s1 EXCEPT !.overview = @ \o parts[2]], returned |-> FALSE]
          ELSE [st |-> s1, returned |-> FALSE]
  ELSE [st |-> st, returned |-> FALSE]

\* DataLine whose delta branch assigns the content instead of appending it
DataLineAssign(st, line) ==
  IF Trim(line) # <<>>
  THEN LET cb == StreamCallback(st, line) IN
       IF StartsWith(line, DeltaTag) /\ Truthy(DeltaContent(line))
       THEN [st |-> [cb EXCEPT !.overview = DeltaContent(line).str],
             returned |-> FALSE]
       ELSE [st |-> cb, returned |-> FALSE]
  ELSE [st |-> st, returned |-> FALSE]

\* DataLine that calls streamCallback after the line has been classified
DataLineCallbackLast(st, line) ==
  IF Trim(line) # <<>>
  THEN IF StartsWith(line, DeltaTag) /\ Truthy(DeltaContent(line))
       THEN [st |-> StreamCallback([st EXCEPT !.overview =
                                      @ \o DeltaContent(line).str], line),
             returned |-> FALSE]
       ELSE [st |-> StreamCallback(st, line), returned |-> FALSE]
  ELSE [st |-> st, returned |-> FALSE]

\* Body of the for loop of the 'data' handler for one line.  The result is
\* [st, returned]; returned = TRUE is the `return` after reject.
DataLine(st, line) ==
  IF Trim(line) # <<>>
  THEN LET s1 == StreamCallback(st, line)
       IN IF StartsWith(line, KeyTag)
          THEN LET jsonStr == KeyJsonStr(line)
               IN IF Truthy(jsonStr)
                  THEN LET r == JSONParse(jsonStr.str)
                       IN IF r.ok
                          THEN [st |-> [s1 EXCEPT !.keySentences = r.value],
                                returned |-> FALSE]
                          ELSE [st |-> [s1 EXCEPT !.promise =
                                          Reject(@, KeySentencesError)],
                                returned |-> TRUE]
                  ELSE [st |-> s1, returned |-> FALSE]
          ELSE IF StartsWith(line, DeltaTag)
               THEN LET deltaContent == DeltaContent(line)
                    IN IF Truthy(deltaContent)
                       THEN [st |-> [s1 EXCEPT !.overview = @ \o deltaContent.str],
                             returned |-> FALSE]
                       ELSE [st |-> s1, returned |-> FALSE]
               ELSE [st |-> s1, returned |-> FALSE]
  ELSE [st |-> st, returned |-> FALSE]

\* for (const line of lines) { ... }
RECURSIVE ForLines(_, _)
ForLines(st, lines) ==
  IF lines = <<>> THEN st
  ELSE LET r == DataLine(st, Head(lines))
       IN IF r.returned THEN r.st ELSE ForLines(r.st, Tail(lines))

\* DataHandler with `buffer = chunk.toString('utf-8')` for `buffer += ...`:
\* the unterminated text of the previous chunks is lost.
DataHandlerOverwrite(st, chunk) ==
  LET text == ToStringUtf8(chunk)
      lines == Split(text, Newline)
      popped == lines[Len(lines)]
  IN ForLines([st EXCEPT !.buffer = popped,
                         !.consumed = @ \o ToStringUtf8(chunk),
                         !.extracted = @ \o SubSeq(lines, 1, Len(lines) - 1)],
              SubSeq(lines, 1, Len(lines) - 1))

\* DataHandler without `buffer = lines.pop()`: the last segment is handled
\* as a line although its terminator has not arrived.
DataHandlerNoPop(st, chunk) ==
  LET text == st.buffer \o ToStringUtf8(chunk)
      lines == Split(text, Newline)
  IN ForLines([st EXCEPT !.buffer = <<>>,
                         !.consumed = @ \o ToStringUtf8(chunk),
                         !.extracted = @ \o lines],
              lines)

\* DataHandler that keeps the whole text, extracted lines included, as the
\* new buffer.
DataHandlerKeepText(st, chunk) ==
  LET text == st.buffer \o ToStringUtf8(chunk)
      lines == Split(text, Newline)
  IN ForLines([st EXCEPT !.buffer = text,
                         !.consumed = @ \o ToStringUtf8(chunk),
                         !.extracted = @ \o SubSeq(lines, 1, Len(lines) - 1)],
              SubSeq(lines, 1, Len(lines) - 1))

\* response.data.on('data', chunk => ...).  consumed is the text appended
\* to the buffer so far and extracted the lines split off it so far.
DataHandler(st, chunk) ==
  LET text == st.buffer \o ToStringUtf8(chunk)
      lines == Split(text, Newline)
      popped == lines[Len(lines)]
  IN ForLines([st EXCEPT !.buffer = popped,
                         !.consumed = @ \o ToStringUtf8(chunk),
                         !.extracted = @ \o SubSeq(lines, 1, Len(lines) - 1)],
              SubSeq(lines, 1, Len(lines) - 1))

\* EndHandler with the 'data' handler's key_sentences branch: the payload
\* after the first colon is parsed and a parse failure rejects.
EndHandlerStrict(st) ==
  LET buf == st.buffer
      s1 == StreamCallback(st, buf)
      i == IndexOf(buf, Colon)
      r == JSONParse(Trim(SubSeq(buf, i + 1, Len(buf))))
  IN IF Trim(buf) # <<>> /\ StartsWith(buf, KeyTag)
     THEN IF r.ok
          THEN [s1 EXCEPT !.keySentences = r.value,
                          !.promise = Resolve(@, Summary(r.value, s1.overview))]
          ELSE [s1 EXCEPT !.promise = Reject(@, KeySentencesError)]
     ELSE IF Trim(buf) # <<>> /\ StartsWith(buf, DeltaTag) /\ Truthy(DeltaContent(buf))
          THEN [s1 EXCEPT !.overview = @ \o DeltaContent(buf).str,
                          !.promise = Resolve(@, Summary(s1.keySentences,
                                        s1.overview \o DeltaContent(buf).str))]
          ELSE LET s2 == IF Trim(buf) # <<>> THEN s1 ELSE st
               IN [s2 EXCEPT !.promise =
                     Resolve(@, Summary(s2.keySentences, s2.overview))]

\* EndHandler that resolves without handling what is left in the buffer
EndHandlerNoFlush(st) ==
  [st EXCEPT !.promise = Resolve(@, Summary(st.keySentences, st.overview))]

\* response.data.on('end', () => ...)
EndHandler(st) ==
  LET buf == st.buffer
      s1 == StreamCallback(st, buf)
      s2 ==
        IF Trim(buf) # <<>>
        THEN IF StartsWith(buf, KeyTag)
             THEN LET jsonStr == KeyJsonStr(buf)
                  IN IF Truthy(jsonStr)
                     THEN LET r == JSONParse(jsonStr.str)
                          IN IF r.ok THEN [s1 EXCEPT !.keySentences = r.value]
                             ELSE s1
                     ELSE s1
             ELSE IF StartsWith(buf, DeltaTag)
                  THEN LET deltaContent == DeltaContent(buf)
                       IN IF Truthy(deltaContent)
                          THEN [s1 EXCEPT !.overview = @ \o deltaContent.str]
                          ELSE s1
                  ELSE s1
        ELSE st
  IN [s2 EXCEPT !.promise = Resolve(@, Summary(s2.keySentences, s2.overview))]

\* ErrorHandler that hands back what was accumulated so far
ErrorHandlerPartial(st, error) ==
  [st EXCEPT !.promise = Resolve(@, Summary(st.keySentences, st.overview))]

\* response.data.on('error', error => ...)
ErrorHandler(st, error) ==
  [st EXCEPT !.promise =
     Reject(@, InstaparserAPIError("Stream error: " \o error.message,
                                   <<>>, <<error>>))]

\* ------------------------------------------------------- response streams
Sp == " "
Qt == "\""
KeyAB == KeyTag \o <<Sp, "[", Qt, "a", Qt, ",", Qt, "b", Qt, "]">>
KeyC == KeyTag \o <<Sp, "[", Qt, "c", Qt, "]">>
KeyBad == KeyTag \o <<Sp, "[", Qt, "a", Qt>>
DeltaHi == DeltaTag \o <<Sp, "H", "i">>
DeltaColon == DeltaTag \o <<Sp, "a", ":", Sp, "b">>
DeltaAccent == DeltaTag \o <<Sp, "C3", "A9">>
DeltaNoSpace == DeltaTag \o <<"N", "o">>
BlankLine == <<Sp>>
EmptyLine == <<>>
OtherLine == <<"x", ":", Sp, "y">>

\* the lines a modelled response is made of, as bytes
LinePalette ==
  <<KeyAB, KeyC, KeyBad, DeltaHi, DeltaColon, DeltaAccent, DeltaNoSpace,
    BlankLine, EmptyLine, OtherLine>>

RECURSIVE Join(_)
Join(ls) ==
  IF ls = <<>> THEN <<>>
  ELSE IF Len(ls) = 1 THEN ls[1]
       ELSE ls[1] \o Newline \o Join(Tail(ls))

Bodies(max) ==
  UNION {{Join([i \in 1..n |-> LinePalette[f[i]]]) :
            f \in [1..n -> 1..Len(LinePalette)]} : n \in 0..max}

\* every response body of up to max lines joined by '\n', with or without
\* a final '\n'
Streams(max) == Bodies(max) \cup {b \o Newline : b \in Bodies(max)}

Causes == {[message |-> "ECONNRESET"], [message |-> "aborted"]}

\* ------------------------------------------- article(), pdf(), summary()
\* The arguments of a call.  output, file and url are the kinds of value
\* passed: "undefined" for an absent option, "xml" for a string that is no
\* output format, "Buffer", "Readable", "string" and "number" for the type
\* of file, "" and "u" for an empty and a non-empty url.  streaming says
\* that streamCallback is given.
Outputs == {"undefined", "html", "text", "xml"}
Files == {"undefined", "Buffer", "Readable", "string", "number"}
Urls == {"undefined", "", "u"}

Calls ==
  {[method |-> "article", output |-> o, file |-> "undefined", url |-> "u",
    streaming |-> FALSE] : o \in Outputs}
  \cup {[method |-> "pdf", output |-> o, file |-> f, url |-> u,
         streaming |-> FALSE] : o \in Outputs, f \in Files, u \in Urls}
  \cup {[method |-> "summary", output |-> "undefined", file |-> "undefined",
         url |-> "u", streaming |-> b] : b \in BOOLEAN}

\* HTTP status codes of the response
Statuses == {200, 201, 400, 401, 403, 409, 429, 500}

NoOutcome == [kind |-> "none", name |-> "", statusCode |-> <<>>]
Returned(type) == [kind |-> "returned", name |-> type, statusCode |-> <<>>]
Threw(name, statusCode) == [kind |-> "threw", name |-> name, statusCode |-> statusCode]

IdleApi ==
  [pc |-> "idle", call |-> CHOOSE c \in Calls : TRUE, requests |-> 0,
   status |-> <<>>, outcome |-> NoOutcome]

\* const { output = 'html' } = options
OutputOrDefault(call) == IF call.output = "undefined" THEN "html" ELSE call.output

\* if (output !== 'html' && output !== 'text') throw ...
OutputOk(call) == OutputOrDefault(call) \in {"html", "text"}

\* pdf() taking a file path string as an upload
PdfArgumentsAcceptPath(call) ==
  IF ~OutputOk(call) THEN "throw"
  ELSE IF call.file # "undefined"
       THEN IF call.file \in {"Buffer", "Readable", "string"} THEN "post" ELSE "throw"
       ELSE IF call.url = "u" THEN "get" ELSE "throw"

\* pdf(): what the argument checks decide, "post" or "get" for the request
\* to issue, "throw" for InstaparserValidationError
PdfArguments(call) ==
  IF ~OutputOk(call) THEN "throw"
  ELSE IF call.file # "undefined"
       THEN IF call.file \in {"Buffer", "Readable"} THEN "post" ELSE "throw"
       ELSE IF call.url = "u" THEN "get" ELSE "throw"

\* article(): "post" or "throw"
ArticleArguments(call) == IF OutputOk(call) THEN "post" ELSE "throw"

\* the method up to its await of the HTTP request
StartCall(call) ==
  LET decided == IF call.method = "article" THEN ArticleArguments(call)
                 ELSE IF call.method = "pdf" THEN PdfArguments(call)
                 ELSE "post"
  IN IF decided = "throw"
     THEN [pc |-> "done", call |-> call, requests |-> 0, status |-> <<>>,
           outcome |-> Threw("InstaparserValidationError", <<>>)]
     ELSE [pc |-> "requesting", call |-> call, requests |-> 1, status |-> <<>>,
           outcome |-> NoOutcome]

\* axios with its default validateStatus: the request promise resolves for
\* a 2xx status and rejects with an AxiosError for any other status
AxiosResolves(status) == status >= 200 /\ status < 300

\* handleResponse(response)
HandleResponse(status, type) ==
  IF status = 200 THEN Returned(type)
  ELSE IF status = 401 THEN Threw("InstaparserAuthenticationError", <<status>>)
  ELSE IF status = 403 THEN Threw("InstaparserAPIError", <<status>>)
  ELSE IF status = 409 THEN Threw("InstaparserAPIError", <<status>>)
  ELSE IF status = 429 THEN Threw("InstaparserRateLimitError", <<status>>)
  ELSE IF status = 400 THEN Threw("InstaparserValidationError", <<status>>)
  ELSE Threw("InstaparserAPIError", <<status>>)

ResultType(call) ==
  IF call.method = "article" THEN "Article"
  ELSE IF call.method = "pdf" THEN "PDF" ELSE "Summary"

\* the method from the settling of the HTTP request on.  A streaming
\* summary() catches the AxiosError and hands a mock response with its
\* status to handleResponse; with a resolved request it goes on to read
\* the stream without looking at the status.  The other calls await the
\* request outside any try block.
FinishCall(a, status) ==
  IF a.call.method = "summary" /\ a.call.streaming
  THEN IF AxiosResolves(status)
       THEN [a EXCEPT !.pc = "streaming", !.status = <<status>>,
                      !.outcome = Returned("Promise<Summary>")]
       ELSE [a EXCEPT !.pc = "done", !.status = <<status>>,
                      !.outcome = HandleResponse(status, "Summary")]
  ELSE IF AxiosResolves(status)
       THEN [a EXCEPT !.pc = "done", !.status = <<status>>,
                      !.outcome = HandleResponse(status, ResultType(a.call))]
       ELSE [a EXCEPT !.pc = "done", !.status = <<status>>,
                      !.outcome = Threw("AxiosError", <<>>)]

\* ------------------------------------------------ concurrent invocations
\* the lines of the bodies of two invocations running side by side
PairPalette == <<DeltaHi, OtherLine>>

PairBodies ==
  UNION {{Join([i \in 1..n |-> PairPalette[f[i]]]) :
            f \in [1..n -> 1..Len(PairPalette)]} : n \in 0..MaxPairLines}

PairStreams == PairBodies \cup {b \o Newline : b \in PairBodies}

\* one streaming invocation: its response and the state its Promise
\* executor declares
Invocation(body) ==
  [stream |-> body, pos |-> 0, transport |-> "open",
   st |-> [keySentences |-> <<>>, overview |-> <<>>, buffer |-> <<>>,
           calls |-> <<>>, promise |-> PendingPromise,
           seen |-> <<>>, consumed |-> <<>>, extracted |-> <<>>]]

\* keySentences, overview and buffer hoisted out of the executor: every
\* invocation works on the same three variables
SlotShared(i) == 1

\* the state the handlers of invocation i close over: `let` declarations
\* inside the executor, one set per call
Slot(i) == i

\* ------------------------------------------------------------------- state
VARIABLES
  stream,        \* bytes of the response body the transport will deliver
  pos,           \* number of bytes delivered so far
  transport,     \* "open", "ended" or "errored"
  keySentences,  \* let keySentences: string[] = []
  overview,      \* let overview = ''
  buffer,        \* let buffer = ''
  calls,         \* arguments of the streamCallback invocations, in order
  promise,       \* the promise returned by summary()
  seen,          \* summary state held at each streamCallback invocation
  consumed,      \* text appended to buffer by the 'data' events so far
  extracted,     \* lines split off buffer by the 'data' events so far
  splitChar,     \* a chunk boundary fell between the bytes of one character
  signals,       \* number of 'end' and 'error' events emitted
  api,           \* one call of article(), pdf() or summary() and its outcome
  inv            \* two streaming summary() invocations running side by side

vars == <<stream, pos, transport, keySentences, overview, buffer, calls,
          promise, seen, consumed, extracted, splitChar, signals, api, inv>>

State == [keySentences |-> keySentences, overview |-> overview,
          buffer |-> buffer, calls |-> calls, promise |-> promise,
          seen |-> seen, consumed |-> consumed, extracted |-> extracted]

Store(st) ==
  /\ keySentences' = st.keySentences
  /\ overview' = st.overview
  /\ buffer' = st.buffer
  /\ calls' = st.calls
  /\ promise' = st.promise
  /\ seen' = st.seen
  /\ consumed' = st.consumed
  /\ extracted' = st.extracted

Constructed(bodies) ==
  /\ stream \in bodies
  /\ pos = 0
  /\ transport = "open"
  /\ keySentences = <<>>
  /\ overview = <<>>
  /\ buffer = <<>>
  /\ calls = <<>>
  /\ promise = PendingPromise
  /\ seen = <<>>
  /\ consumed = <<>>
  /\ extracted = <<>>
  /\ splitChar = FALSE
  /\ signals = 0
  /\ api = IdleApi
  /\ inv = [i \in 1..2 |-> Invocation(<<>>)]

Init == Constructed(Streams(MaxLines))

\* the transport emits 'data' with the next n bytes of the body
Data ==
  /\ transport = "open"
  /\ \E n \in 0..MaxChunk :
       /\ pos + n <= Len(stream)
       /\ Store(DataHandler(State, SubSeq(stream, pos + 1, pos + n)))
       /\ pos' = pos + n
       /\ splitChar' = (splitChar \/ (n > 0 /\ pos + n < Len(stream)
                                        /\ stream[pos + n] = "C3"))
  /\ UNCHANGED <<stream, transport, signals, api, inv>>

\* the transport emits 'end' after the last byte
End ==
  /\ transport = "open"
  /\ pos = Len(stream)
  /\ Store(EndHandler(State))
  /\ transport' = "ended"
  /\ signals' = signals + 1
  /\ UNCHANGED <<stream, pos, splitChar, api, inv>>

\* the transport emits 'error' before 'end'
Error ==
  /\ transport = "open"
  /\ \E cause \in Causes : Store(ErrorHandler(State, cause))
  /\ transport' = "errored"
  /\ signals' = signals + 1
  /\ UNCHANGED <<stream, pos, splitChar, api, inv>>

Next == Data \/ End \/ Error

Spec == Init /\ [][Next]_vars

\* A transport that does not keep the contract: the handlers stay registered
\* after the first 'end' or 'error', so a later event still runs them.
\* transport keeps the first terminal event.
LateData ==
  /\ transport # "open"
  /\ \E n \in 1..MaxChunk :
       /\ pos + n <= Len(stream)
       /\ Store(DataHandler(State, SubSeq(stream, pos + 1, pos + n)))
       /\ pos' = pos + n
       /\ splitChar' = (splitChar \/ (pos + n < Len(stream)
                                        /\ stream[pos + n] = "C3"))
  /\ UNCHANGED <<stream, transport, signals, api, inv>>

LateEnd ==
  /\ transport # "open"
  /\ signals < MaxSignals
  /\ Store(EndHandler(State))
  /\ signals' = signals + 1
  /\ UNCHANGED <<stream, pos, transport, splitChar, api, inv>>

LateError ==
  /\ transport # "open"
  /\ signals < MaxSignals
  /\ \E cause \in Causes : Store(ErrorHandler(State, cause))
  /\ signals' = signals + 1
  /\ UNCHANGED <<stream, pos, transport, splitChar, api, inv>>

NextAnyOrder == Data \/ End \/ Error \/ LateData \/ LateEnd \/ LateError

InitAnyOrder == Constructed(Streams(MaxLateLines))

SpecAnyOrder == InitAnyOrder /\ [][NextAnyOrder]_vars

\* one call of article(), pdf() or summary() against a server answering
\* with any status
Invoke ==
  /\ api.pc = "idle"
  /\ \E call \in Calls : api' = StartCall(call)
  /\ UNCHANGED <<stream, pos, transport, keySentences, overview, buffer, calls,
                 promise, seen, consumed, extracted, splitChar, signals, inv>>

Respond ==
  /\ api.pc = "requesting"
  /\ \E status \in Statuses : api' = FinishCall(api, status)
  /\ UNCHANGED <<stream, pos, transport, keySentences, overview, buffer, calls,
                 promise, seen, consumed, extracted, splitChar, signals, inv>>

NextApi == Invoke \/ Respond

SpecApi == Constructed({<<>>}) /\ [][NextApi]_vars

\* two streaming invocations whose events interleave
PairData(i) ==
  /\ inv[i].transport = "open"
  /\ \E n \in 1..MaxChunk :
       /\ inv[i].pos + n <= Len(inv[i].stream)
       /\ LET chunk == SubSeq(inv[i].stream, inv[i].pos + 1, inv[i].pos + n)
              moved == [inv EXCEPT ![i].pos = @ + n]
          IN inv' = [moved EXCEPT ![Slot(i)].st = DataHandler(@, chunk)]
  /\ UNCHANGED <<stream, pos, transport, keySentences, overview, buffer, calls,
                 promise, seen, consumed, extracted, splitChar, signals, api>>

PairEnd(i) ==
  /\ inv[i].transport = "open"
  /\ inv[i].pos = Len(inv[i].stream)
  /\ LET closed == [inv EXCEPT ![i].transport = "ended"]
     IN inv' = [closed EXCEPT ![Slot(i)].st = EndHandler(@)]
  /\ UNCHANGED <<stream, pos, transport, keySentences, overview, buffer, calls,
                 promise, seen, consumed, extracted, splitChar, signals, api>>

PairError(i) ==
  /\ inv[i].transport = "open"
  /\ \E cause \in Causes :
       LET closed == [inv EXCEPT ![i].transport = "errored"]
       IN inv' = [closed EXCEPT ![Slot(i)].st = ErrorHandler(@, cause)]
  /\ UNCHANGED <<stream, pos, transport, keySentences, overview, buffer, calls,
                 promise, seen, consumed, extracted, splitChar, signals, api>>

NextPair ==
  \/ \E i \in 1..2 : PairData(i)
  \/ \E i \in 1..2 : PairEnd(i)
  \/ \E i \in 1..2 : PairError(i)

InitPair ==
  /\ stream = <<>>
  /\ pos = 0
  /\ transport = "open"
  /\ keySentences = <<>>
  /\ overview = <<>>
  /\ buffer = <<>>
  /\ calls = <<>>
  /\ promise = PendingPromise
  /\ seen = <<>>
  /\ consumed = <<>>
  /\ extracted = <<>>
  /\ splitChar = FALSE
  /\ signals = 0
  /\ api = IdleApi
  /\ inv \in [1..2 -> {Invocation(b) : b \in PairStreams}]

SpecPair == InitPair /\ [][NextPair]_vars

\* ---------------------------------------------------- reference notions
Last(s) == s[Len(s)]
Front(s) == SubSeq(s, 1, Len(s) - 1)

IsBlank(l) == Trim(l) = <<>>
NonBlank(l) == Trim(l) # <<>>

\* the response body as text, decoded in one piece
Text == ToStringUtf8(stream)

\* S split on '\n', a single trailing empty segment dropped (S ends with
\* '\n', or S is empty and has no line at all)
LinesOf(S) ==
  LET segs == Split(S, Newline)
  IN IF Last(segs) = <<>> THEN Front(segs) ELSE segs

\* the newline-terminated lines of S
TerminatedLines(S) == Front(Split(S, Newline))

\* the text after the first occurrence of sep in l (sep occurs in l)
AfterFirst(l, sep) == SubSeq(l, IndexOf(l, sep) + Len(sep), Len(l))

\* the handlers' state after construction
InitState ==
  [keySentences |-> <<>>, overview |-> <<>>, buffer |-> <<>>,
   calls |-> <<>>, promise |-> PendingPromise,
   seen |-> <<>>, consumed |-> <<>>, extracted |-> <<>>]

\* the whole body delivered as one chunk, then 'end'
RunWhole(bytes) == EndHandler(DataHandler(InitState, bytes))

Ended == transport = "ended"
Resolved == promise.state = "resolved"

\* the body arrived in more than one non-empty chunk
SeveralChunks == pos > MaxChunk

KeyPayload(l) == Trim(AfterFirst(l, Colon))

\* l is a key_sentences line whose payload is a JSON array of strings
WellFormedKey(l) ==
  /\ StartsWith(l, KeyTag)
  /\ KeyPayload(l) # <<>>
  /\ Head(KeyPayload(l)) = "["
  /\ JSONParse(KeyPayload(l)).ok

\* C2 as stated: the resolved Summary.keySentences is the array parsed from
\* the last key_sentences line of the body whose payload is a JSON array of
\* strings.
C2_KeySentencesLastWins ==
  (Resolved /\ ~splitChar) =>
     LET keyLines == SelectSeq(LinesOf(Text), WellFormedKey)
     IN keyLines # <<>> =>
          promise.summary.keySentences = JSONParse(KeyPayload(Last(keyLines))).value

\* ------------------------------------------------------------------ C3
\* l is a key_sentences line whose non-empty payload is not valid JSON
MalformedKey(l) ==
  /\ StartsWith(l, KeyTag)
  /\ KeyPayload(l) # <<>>
  /\ ~JSONParse(KeyPayload(l)).ok

\* C3 as stated: when the body has a newline-terminated key_sentences line
\* whose payload is not valid JSON, the promise is rejected with
\* InstaparserAPIError 412 and never resolves with a Summary.
C3_MalformedMidStreamRejects ==
  (Ended /\ \E i \in 1..Len(TerminatedLines(Text)) :
              MalformedKey(TerminatedLines(Text)[i]))
    => (promise.state = "rejected" /\ promise.error = KeySentencesError)

\* ------------------------------------------------------------------ C4
\* C4: when 'end' is handled with a trailing buffer that is a key_sentences
\* line with a malformed payload, the promise resolves with the keySentences
\* and the overview the handlers held before the flush.
C4_MalformedAtEndSwallowed ==
  [][(transport = "open" /\ transport' = "ended" /\ MalformedKey(buffer))
       => (promise'.state = "resolved"
           /\ promise'.summary = Summary(keySentences, overview))]_vars

\* 'end' was handled with a malformed key_sentences line in the buffer,
\* after an earlier line had fed the overview
C4_Witness ==
  /\ Ended /\ MalformedKey(buffer) /\ Resolved
  /\ promise.summary.overview # <<>>
  /\ calls # <<>> /\ Last(calls) = buffer

\* ------------------------------------------------------------------ C5
\* l is a delta line that contains the separator ': '
DeltaWithSeparator(l) == StartsWith(l, DeltaTag) /\ IndexOf(l, ColonSpace) # 0

RECURSIVE ConcatPayloads(_)
ConcatPayloads(ls) ==
  IF ls = <<>> THEN <<>>
  ELSE AfterFirst(Head(ls), ColonSpace) \o ConcatPayloads(Tail(ls))

\* C5 as stated: the resolved overview is the in-order concatenation, over
\* the delta lines that contain ': ', of the entire text after the first
\* ': ' of the line.
C5_DeltaAppendsAllAfterSeparator ==
  (Resolved /\ ~splitChar) =>
     promise.summary.overview =
       ConcatPayloads(SelectSeq(LinesOf(Text), DeltaWithSeparator))

\* ------------------------------------------------------------------ C6
\* C6: whatever the order of the data/end/error events, the promise is
\* settled by the first 'end' or 'error' event and by nothing else: it is
\* resolved exactly when that event was 'end', rejected exactly when it was
\* 'error', and once settled its state and value never change.
C6_SettlesExactlyOnce ==
  /\ [](transport = "open" <=> promise.state = "pending")
  /\ [](transport = "ended" <=> promise.state = "resolved")
  /\ [](transport = "errored" <=> promise.state = "rejected")
  /\ [][promise.state # "pending" => promise' = promise]_vars

\* an 'end' event arrived after the 'error' event that rejected the promise
C6_Witness ==
  /\ transport = "errored"
  /\ signals = 2
  /\ promise.state = "rejected"
  /\ calls # <<>> /\ Last(calls) = buffer

\* ------------------------------------------------------------------ C7
\* C7: after an 'error' event the promise is rejected with an
\* InstaparserAPIError whose message is 'Stream error: ' followed by the
\* cause's message, without status code, carrying the cause; it holds no
\* Summary, whatever lines were handled before.
C7_StreamErrorRejects ==
  transport = "errored" =>
    /\ promise.state = "rejected"
    /\ promise.summary = NoSummary
    /\ \E cause \in Causes :
         promise.error = [name |-> "InstaparserAPIError",
                          message |-> "Stream error: " \o cause.message,
                          statusCode |-> <<>>,
                          response |-> <<cause>>]

\* the error arrived after lines had been delivered and the overview fed
C7_Witness ==
  /\ transport = "errored"
  /\ promise.state = "rejected"
  /\ overview # <<>>
  /\ calls # <<>>

\* ------------------------------------------------------------------ C8
\* C8: for a body cut into chunks between characters, the settled promise
\* is the one obtained when the whole body arrives as a single chunk.
C8_ChunkingInvariant ==
  (Ended /\ ~splitChar) => promise = RunWhole(stream).promise

\* a body holding a two-byte character arrived in several chunks, none of
\* them cutting the character
C8_Witness ==
  /\ Ended /\ ~splitChar /\ SeveralChunks
  /\ \E i \in 1..Len(promise.summary.overview) :
       promise.summary.overview[i] = "E9"

\* ------------------------------------------------------------------ C9
\* C9 as stated: also when a chunk boundary cuts a multi-byte character,
\* the lines passed to the callback and the overview are those obtained
\* when the bytes arrive in a single chunk.
C9_SplitCharacterDecodesAsWhole ==
  Ended =>
    /\ calls = RunWhole(stream).calls
    /\ promise.summary.overview = RunWhole(stream).promise.summary.overview

WithoutBlankLines(bytes) ==
  LET segs == Split(bytes, Newline)
  IN Join(SelectSeq(Front(segs), NonBlank) \o <<Last(segs)>>)

ClaimedOutcome(call, status) ==
  IF status = 200 THEN Returned(ResultType(call))
  ELSE IF status = 401 THEN Threw("InstaparserAuthenticationError", <<status>>)
  ELSE IF status = 429 THEN Threw("InstaparserRateLimitError", <<status>>)
  ELSE IF status = 400 THEN Threw("InstaparserValidationError", <<status>>)
  ELSE Threw("InstaparserAPIError", <<status>>)

\* C11 as stated: once the response of a non-streaming article(), pdf() or
\* summary() call has arrived, and once a streaming summary() call has
\* failed, the outcome is the one the status decides: the result object
\* for 200, else the error class of the status carrying it in statusCode.
C11_OutcomeFollowsStatus ==
  (api.pc = "done" /\ api.status # <<>>)
    => api.outcome = ClaimedOutcome(api.call, api.status[1])

\* ----------------------------------------------------------------- C18
\* the argument errors the claim lists
InvalidArguments(call) ==
  \/ call.method \in {"article", "pdf"} /\ call.output \notin {"undefined", "html", "text"}
  \/ call.method = "pdf" /\ call.file = "undefined" /\ call.url # "u"
  \/ call.method = "pdf" /\ call.file \notin {"undefined", "Buffer", "Readable"}

NotFolded(l) ==
  \/ ~StartsWith(l, KeyTag) /\ ~StartsWith(l, DeltaTag)
  \/ StartsWith(l, DeltaTag) /\ IndexOf(l, ColonSpace) = 0

PlainLine(l) == NonBlank(l) /\ NotFolded(l)

\* bytes without the lines that satisfy Drop (a trailing unterminated line
\* that satisfies it is emptied)
WithoutLines(bytes, Drop(_)) ==
  LET segs == Split(bytes, Newline)
      Keep(b) == ~Drop(ToStringUtf8(b))
  IN Join(SelectSeq(Front(segs), Keep)
          \o <<IF Drop(ToStringUtf8(Last(segs))) THEN <<>> ELSE Last(segs)>>)

OverviewGain(l) ==
  IF StartsWith(l, DeltaTag) /\ Truthy(DeltaContent(l))
  THEN DeltaContent(l).str ELSE <<>>

\* the summary state that follows the i-th callback invocation: the one
\* held at the next invocation, or the current one after the last
StateAfterCall(i) ==
  IF i < Len(calls) THEN seen[i + 1] ELSE Summary(keySentences, overview)

\* C13: streamCallback is invoked before its line is classified: the
\* summary state held at the moment of the call lacks what the line adds,
\* which is there afterwards; and a key_sentences line with a malformed
\* payload, newline-terminated or trailing, reaches the callback.
C13_CallbackBeforeClassification ==
  /\ Len(seen) = Len(calls)
  /\ \A i \in 1..Len(calls) :
       /\ NonBlank(calls[i])
       /\ StateAfterCall(i).overview = seen[i].overview \o OverviewGain(calls[i])
  /\ (Ended /\ ~splitChar) =>
        SelectSeq(calls, MalformedKey) = SelectSeq(LinesOf(Text), MalformedKey)

\* a malformed key_sentences line and then a delta line were handled: at
\* the call for the delta line the overview was still empty
C13_Witness ==
  /\ Ended /\ ~splitChar
  /\ Len(calls) = 2
  /\ MalformedKey(calls[1])
  /\ seen[2].overview = <<>>
  /\ overview # <<>>

\* ----------------------------------------------------------------- C14
IsPrefix(a, b) == Len(a) <= Len(b) /\ SubSeq(b, 1, Len(a)) = a

\* C14: across data and end events overview only grows: after every
\* handler step its previous value is a prefix of its new value.
C14_OverviewOnlyGrows == [][IsPrefix(overview, overview')]_vars

\* two delta lines were handled and the second extended a non-empty overview
C14_Witness ==
  /\ Len(calls) = 2
  /\ seen[2].overview # <<>>
  /\ Len(overview) > Len(seen[2].overview)
  /\ IsPrefix(seen[2].overview, overview)

\* ----------------------------------------------------------------- C15
\* the lines, each followed by '\n', concatenated
RECURSIVE Terminated(_)
Terminated(lines) ==
  IF lines = <<>> THEN <<>>
  ELSE lines[1] \o Newline \o Terminated(Tail(lines))

\* C15: after every processed chunk, the text consumed so far equals the
\* lines extracted so far, each followed by '\n', plus the line buffer;
\* the buffer is the last segment of the split, so neither it nor an
\* extracted line contains '\n'.
C15_BufferAccounting ==
  /\ consumed = Terminated(extracted) \o buffer
  /\ IndexOf(buffer, Newline) = 0
  /\ \A i \in 1..Len(extracted) : IndexOf(extracted[i], Newline) = 0
  /\ ~splitChar => consumed = ToStringUtf8(SubSeq(stream, 1, pos))

\* several chunks were processed, a line was extracted and a partial line
\* is waiting in the buffer
C15_Witness ==
  /\ transport = "open"
  /\ SeveralChunks
  /\ extracted # <<>>
  /\ buffer # <<>>
  /\ consumed = Terminated(extracted) \o buffer

\* ----------------------------------------------------------------- C16
\* the step that handles the end signal
EndStep == transport = "open" /\ transport' = "ended"

\* C16: on the end signal a non-blank trailing buffer is handled as a full
\* line (callback first, then the tag classification a 'data' line gets);
\* an empty or whitespace-only buffer causes no callback and no
\* classification; either way the promise resolves with the state
\* accumulated by then.
C16_EndFlushesTrailingLine ==
  [][EndStep =>
       /\ IF NonBlank(buffer)
          THEN /\ calls' = Append(calls, buffer)
               /\ seen' = Append(seen, Summary(keySentences, overview))
               /\ overview' = overview \o OverviewGain(buffer)
               /\ keySentences' = DataLine(State, buffer).st.keySentences
          ELSE /\ calls' = calls
               /\ seen' = seen
               /\ overview' = overview
               /\ keySentences' = keySentences
       /\ promise'.state = "resolved"
       /\ promise'.summary = Summary(keySentences', overview')]_vars

\* the stream ended with a whitespace-only buffer after a delta line: the
\* promise resolved with the overview of that line and one callback
C16_Witness ==
  /\ Ended /\ Resolved
  /\ buffer # <<>> /\ IsBlank(buffer)
  /\ Len(calls) = 1
  /\ overview # <<>>
  /\ promise.summary = Summary(keySentences, overview)

\* ----------------------------------------------------------------- C17
\* C17: two streaming invocations whose data/end/error events interleave
\* share no state: once an invocation has handled its end signal, its
\* settled promise and its callback sequence are those of the same
\* response handled alone.
C17_InvocationsIsolated ==
  \A i \in 1..2 :
    inv[i].transport = "ended" =>
      /\ inv[i].st.promise = RunWhole(inv[i].stream).promise
      /\ inv[i].st.calls = RunWhole(inv[i].stream).calls

\* both invocations ended on different responses, one with an overview and
\* the other without, each having called back
C17_Witness ==
  /\ \A i \in 1..2 : inv[i].transport = "ended" /\ inv[i].st.calls # <<>>
  /\ inv[1].stream # inv[2].stream
  /\ inv[1].st.promise.summary.overview # <<>>
  /\ inv[2].st.promise.summary.overview = <<>>

====
